---- MODULE Spec2Model ----
(***************************************************************************)
(* A model of the YouTube graph crawler of python/videoscraper/crawler.py: *)
(* the YouTubeCrawler engine (frontier, visited set, discovered table,     *)
(* counters, worker threads, run(), stop()), its checkpoint file, and the  *)
(* process that holds the engine (it can exit or crash, and a new engine   *)
(* can be constructed over the checkpoint file that was left behind).      *)
(***************************************************************************)
EXTENDS Integers, Sequences, FiniteSets, TLC

---------------------------------------------------------------------------
\* Bounds of the model.

\* max_videos is drawn from 1..MaxVideosCfg
MaxVideosCfg == 3
\* max_depth is drawn from 0..MaxDepthCfg
MaxDepthCfg == 1
\* num_workers is drawn from 1..MaxWorkers
MaxWorkers == 2
\* checkpoint_interval is drawn from 1..MaxInterval
MaxInterval == 2
\* add_seed is called at most MaxSeedCalls times on one engine
MaxSeedCalls == 2
\* engines constructed one after the other over the same checkpoint path
MaxEngines == 2
\* the observers that count events saturate at MaxCount
MaxCount == 2

---------------------------------------------------------------------------
\* Video IDs, the stub graph behind the expander, and the seed URLs.

IDs == {"A", "B", "C"}

\* parent_id of a seed (Python None)
None == "None"

\* The related videos the site shows for each ID. Mesh: C is related to A and
\* to B, and A to C (a cycle). Pair: A and B are related to each other.
Mesh ==
    [x \in IDs |-> CASE x = "A" -> <<"B", "C">>
                     [] x = "B" -> <<"C">>
                     [] x = "C" -> <<"A">>]

Pair ==
    [x \in IDs |-> CASE x = "A" -> <<"B">>
                     [] x = "B" -> <<"A">>
                     [] x = "C" -> <<>>]

\* Chain: B is related to A, and C to B.
Chain ==
    [x \in IDs |-> CASE x = "A" -> <<"B">>
                     [] x = "B" -> <<"C">>
                     [] x = "C" -> <<>>]

\* the URLs handed to add_seed: the watch URL of A, and a URL without an ID
Urls == {"watch?v=A", "about"}

\* the watch URL of B, handed to add_seed where a crawl has a second seed
MoreUrls == {"watch?v=B"}

\* extract_video_id: the ID in the URL, or None
extract_video_id(url) ==
    CASE url = "watch?v=A" -> "A"
      [] url = "watch?v=B" -> "B"
      [] url = "watch?v=C" -> "C"
      [] OTHER -> None

---------------------------------------------------------------------------
VARIABLES
    \* the site: ID -> the related IDs its watch page shows
    graph,
    \* configuration (constructor arguments)
    max_videos, max_depth, num_workers, checkpoint_file, checkpoint_interval,
    download, on_discover,
    \* engine state
    frontier,       \* Queue of <<video_id, depth, parent_id>>
    visited,        \* set of IDs
    discovered,     \* video_id -> node (depth, parent_id)
    stats,          \* CrawlStats counters
    stop_event,     \* threading.Event
    \* control
    runPc,          \* where the thread that owns the engine is
    wpc,            \* worker -> position in _worker
    witem,          \* worker -> the work item it holds
    wrel,           \* worker -> related IDs still to be offered to the frontier
    snap,           \* saver -> the checkpoint dict being built by _save_checkpoint
    \* the checkpoint path on disk
    file,
    \* observers (not program state)
    engine,         \* number of the engine in use
    seedCalls,      \* add_seed calls made on this engine
    seedsGiven,     \* IDs passed to add_seed on this engine
    seedsAdded,     \* add_seed calls on this engine that returned True
    lastRun,        \* how run() was last entered: "empty" frontier, or "crawl"
    ranWith,        \* the IDs that had been passed to add_seed when run() was last called
    expandCount,    \* ID -> get_video_info calls made by this engine
    claimCount,     \* ID -> successful claims in this engine
    claimParent,    \* ID -> parent_id carried by the claimed item
    sinceStop,      \* worker -> IDs it claimed after the stop event was set
    owed,           \* the last multiple of checkpoint_interval videos_processed
                    \* reached with no periodic save started since (0: none)
    lastExit,       \* how the previous engine ended: "crash" in the middle of
                    \* run(), "stopped" after stop(), else where run() was
    prev            \* what the previous engine held when its process ended

cfgVars == <<graph, max_videos, max_depth, num_workers, checkpoint_file,
             checkpoint_interval, download, on_discover>>
engVars == <<frontier, visited, discovered, stats, stop_event>>
ctlVars == <<runPc, wpc, witem, wrel, snap>>
histVars == <<engine, seedCalls, seedsGiven, seedsAdded, lastRun, ranWith,
              expandCount, claimCount, claimParent, sinceStop, lastExit, prev>>
obsVars == <<histVars, owed>>
vars == <<cfgVars, engVars, ctlVars, file, obsVars>>

---------------------------------------------------------------------------
\* Values.

\* CrawlStats() as constructed
ZeroStats ==
    [videos_discovered |-> 0, videos_processed |-> 0, videos_downloaded |-> 0,
     bytes_downloaded |-> 0, errors |-> 0]

\* an empty dict of nodes
NoNodes == [x \in {} |-> [depth |-> 0, parent_id |-> None]]

NoItem == <<None, 0, None>>

\* the checkpoint path does not exist
NoFile == [form |-> "absent", visited |-> {}, discovered |-> NoNodes,
           stats |-> ZeroStats]

EmptySnap == [visited |-> {}, discovered |-> NoNodes, stats |-> ZeroStats]

Workers == 1..num_workers
\* the thread that calls run() saves the final checkpoint
Main == 0
Savers == 0..num_workers

Inc(n) == IF n < MaxCount THEN n + 1 ELSE n

len_discovered == Cardinality(DOMAIN discovered)

\* related_ids of the node get_video_info returns for an ID
Related(id) == graph[id]

---------------------------------------------------------------------------
\* The configurations an engine is constructed with.

Configs ==
    [max_videos : 1..MaxVideosCfg, max_depth : 0..MaxDepthCfg,
     num_workers : 1..MaxWorkers, checkpoint_file : BOOLEAN,
     checkpoint_interval : 1..MaxInterval, download : BOOLEAN,
     on_discover : BOOLEAN]

\* YouTubeCrawler.__init__ with no checkpoint to load, configured with c, on
\* a site with the related videos g
Start(g, c) ==
    /\ graph = g
    /\ max_videos = c.max_videos
    /\ max_depth = c.max_depth
    /\ num_workers = c.num_workers
    /\ checkpoint_file = c.checkpoint_file
    /\ checkpoint_interval = c.checkpoint_interval
    /\ download = c.download
    /\ on_discover = c.on_discover
    /\ frontier = <<>>
    /\ visited = {}
    /\ discovered = NoNodes
    /\ stats = ZeroStats
    /\ stop_event = FALSE
    /\ runPc = "init"
    /\ wpc = [w \in Workers |-> "done"]
    /\ witem = [w \in Workers |-> NoItem]
    /\ wrel = [w \in Workers |-> <<>>]
    /\ snap = [s \in Savers |-> EmptySnap]
    /\ file = NoFile
    /\ engine = 1
    /\ seedCalls = 0
    /\ seedsGiven = {}
    /\ seedsAdded = 0
    /\ lastRun = "none"
    /\ ranWith = {}
    /\ expandCount = [x \in IDs |-> 0]
    /\ claimCount = [x \in IDs |-> 0]
    /\ claimParent = [x \in IDs |-> None]
    /\ sinceStop = [w \in Workers |-> 0]
    /\ owed = 0
    /\ lastExit = "none"
    /\ prev = [discovered |-> {}, expanded |-> {}, seeds |-> {}, max_videos |-> 0]

---------------------------------------------------------------------------
\* add_seed

\* the test of add_seed without the look at _visited (a faulty variant)
SeedAcceptedAlways(video_id) == video_id # None

\* the test of add_seed: an ID was extracted and it is not in _visited
SeedAccepted(video_id) == video_id # None /\ video_id \notin visited

add_seed(url) ==
    /\ runPc \in {"init", "returned"}
    /\ seedCalls < MaxSeedCalls
    /\ LET video_id == extract_video_id(url) IN
        /\ frontier' = IF SeedAccepted(video_id)
                       THEN Append(frontier, <<video_id, 0, None>>)
                       ELSE frontier
        /\ seedsGiven' = IF video_id # None THEN seedsGiven \cup {video_id}
                         ELSE seedsGiven
        /\ seedsAdded' = IF SeedAccepted(video_id) THEN seedsAdded + 1
                         ELSE seedsAdded
    /\ seedCalls' = seedCalls + 1
    /\ UNCHANGED <<cfgVars, visited, discovered, stats, stop_event, ctlVars, file,
                   engine, lastRun, ranWith, expandCount, claimCount, claimParent, sinceStop,
                   lastExit, prev, owed>>

---------------------------------------------------------------------------
\* run(), up to the point where the workers are running

\* run() on an empty frontier: returns self._stats at once
RunEmpty ==
    /\ runPc \in {"init", "returned"}
    /\ frontier = <<>>
    /\ runPc' = "returned"
    /\ ranWith' = seedsGiven
    /\ lastRun' = "empty"
    /\ UNCHANGED <<cfgVars, engVars, wpc, witem, wrel, snap, file, engine,
                   seedCalls, seedsGiven, seedsAdded, expandCount, claimCount, claimParent,
                   sinceStop, lastExit, prev, owed>>

\* run() with seeds: clears the stop event, replaces the stats, starts the
\* workers; ThreadPoolExecutor raises ValueError for max_workers <= 0
RunStart ==
    /\ runPc \in {"init", "returned"}
    /\ frontier # <<>>
    /\ stop_event' = FALSE
    /\ stats' = ZeroStats
    /\ IF num_workers < 1
       THEN runPc' = "raised" /\ UNCHANGED wpc
       ELSE wpc' = [w \in Workers |-> "top"] /\ runPc' = "workers"
    /\ ranWith' = seedsGiven
    /\ sinceStop' = [w \in Workers |-> 0]
    /\ owed' = 0
    /\ lastRun' = "crawl"
    /\ UNCHANGED <<cfgVars, frontier, visited, discovered, witem, wrel, snap, file,
                   engine, seedCalls, seedsGiven, seedsAdded, expandCount, claimCount,
                   claimParent, lastExit, prev>>

\* stop(), called from another thread while the workers run
Stop ==
    /\ runPc = "workers"
    /\ ~stop_event
    /\ stop_event' = TRUE
    /\ UNCHANGED <<cfgVars, frontier, visited, discovered, stats, ctlVars, file,
                   obsVars>>

---------------------------------------------------------------------------
\* _worker

Go(w, p) == wpc' = [wpc EXCEPT ![w] = p]

\* while not self._stop_event.is_set()
WTop(w) ==
    /\ runPc = "workers"
    /\ wpc[w] = "top"
    /\ Go(w, IF stop_event THEN "done" ELSE "cap")
    /\ UNCHANGED <<cfgVars, engVars, runPc, witem, wrel, snap, file, obsVars>>

\* the limit tested one vertex late (a faulty variant)
CapReachedLate == len_discovered > max_videos

\* the limit tested one vertex early (a faulty variant)
CapReachedEarly == len_discovered + 1 >= max_videos

\* len(self._discovered) >= self.max_videos
CapReached == len_discovered >= max_videos

\* the check of the limit, under the lock
WCap(w) ==
    /\ wpc[w] = "cap"
    /\ Go(w, IF CapReached THEN "done" ELSE "get")
    /\ UNCHANGED <<cfgVars, engVars, runPc, witem, wrel, snap, file, obsVars>>

\* self._frontier.get(timeout=5) returns an item
WGet(w) ==
    /\ wpc[w] = "get"
    /\ frontier # <<>>
    /\ witem' = [witem EXCEPT ![w] = Head(frontier)]
    /\ frontier' = Tail(frontier)
    /\ Go(w, "claim")
    /\ UNCHANGED <<cfgVars, visited, discovered, stats, stop_event, runPc, wrel,
                   snap, file, obsVars>>

\* self._frontier.get(timeout=5) raises Empty: nothing arrived in time
WGetEmpty(w) ==
    /\ wpc[w] = "get"
    /\ frontier = <<>>
    /\ Go(w, "empty1")
    /\ UNCHANGED <<cfgVars, engVars, runPc, witem, wrel, snap, file, obsVars>>

\* if self._frontier.empty(): time.sleep(1) ... else continue
WEmpty1(w) ==
    /\ wpc[w] = "empty1"
    /\ Go(w, IF frontier = <<>> THEN "empty2" ELSE "top")
    /\ UNCHANGED <<cfgVars, engVars, runPc, witem, wrel, snap, file, obsVars>>

\* after the sleep: if self._frontier.empty(): break, else continue
WEmpty2(w) ==
    /\ wpc[w] = "empty2"
    /\ Go(w, IF frontier = <<>> THEN "done" ELSE "top")
    /\ UNCHANGED <<cfgVars, engVars, runPc, witem, wrel, snap, file, obsVars>>

\* the test of _visited left out of the claim step (a faulty variant)
AlreadyVisitedNever(video_id) == FALSE

\* video_id in self._visited
AlreadyVisited(video_id) == video_id \in visited

\* the depth test left out of the claim step (a faulty variant)
TooDeepNever(depth) == FALSE

\* the depth test passing one level more (a faulty variant)
TooDeepByOne(depth) == depth > max_depth + 1

\* depth > self.max_depth
TooDeep(depth) == depth > max_depth

\* the claim, under the lock: skip a visited ID or a too deep item, else
\* add the ID to _visited
WClaim(w) ==
    /\ wpc[w] = "claim"
    /\ LET video_id == witem[w][1]
           depth == witem[w][2]
       IN IF AlreadyVisited(video_id) \/ TooDeep(depth)
          THEN /\ Go(w, "top")
               /\ witem' = [witem EXCEPT ![w] = NoItem]
               /\ UNCHANGED <<visited, claimCount, claimParent, sinceStop>>
          ELSE /\ visited' = visited \cup {video_id}
               /\ sinceStop' = [sinceStop EXCEPT
                                   ![w] = IF stop_event THEN Inc(@) ELSE @]
               /\ claimCount' = [claimCount EXCEPT ![video_id] = Inc(@)]
               /\ claimParent' = [claimParent EXCEPT ![video_id] = witem[w][3]]
               /\ Go(w, "expand")
               /\ UNCHANGED witem
    /\ UNCHANGED <<cfgVars, frontier, discovered, stats, stop_event, runPc, wrel,
                   snap, file, engine, seedCalls, seedsGiven, seedsAdded, lastRun,
                   ranWith, expandCount, lastExit, prev, owed>>

\* what get_video_info does for the caller: a node, None, or an exception
ExpandOutcomes == {"node", "none", "raise"}

\* the error left uncounted (a faulty variant)
CountErrorNot(s) == s

\* self._stats.errors += 1, under the lock
CountError(s) == [s EXCEPT !.errors = @ + 1]

\* time.sleep(delay); node = self._extractor.get_video_info(video_id)
\* without a node, or on an exception, the error is counted
WExpand(w) ==
    /\ wpc[w] = "expand"
    /\ expandCount' = [expandCount EXCEPT ![witem[w][1]] = Inc(@)]
    /\ \E outcome \in ExpandOutcomes :
        IF outcome = "node"
        THEN /\ Go(w, "record")
             /\ UNCHANGED <<stats, witem>>
        ELSE /\ stats' = CountError(stats)
             /\ witem' = [witem EXCEPT ![w] = NoItem]
             /\ Go(w, "top")
    /\ UNCHANGED <<cfgVars, frontier, visited, discovered, stop_event, runPc, wrel,
                   snap, file, engine, seedCalls, seedsGiven, seedsAdded, lastRun,
                   ranWith, claimCount, claimParent, sinceStop, lastExit, prev, owed>>

\* random.sample(ids, k): k entries of ids at distinct positions, in any order
Samples(ids, k) ==
    { [i \in 1..k |-> ids[f[i]]] :
        f \in { g \in [1..k -> 1..Len(ids)] :
                  \A i, j \in 1..k : i # j => g[i] # g[j] } }

Min(a, b) == IF a < b THEN a ELSE b

\* the random walk branch: 1 to min(3, n) of the related IDs
RandomWalk(ids) ==
    UNION { Samples(ids, k) : k \in 1..Min(3, Len(ids)) }

\* the list _add_related_to_frontier iterates over: nothing without related
\* IDs, else a random sample or (BFS) all of them
RelatedChoices(ids) ==
    IF ids = <<>> THEN {<<>>} ELSE RandomWalk(ids) \cup {ids}

\* node.depth = depth; node.parent_id = parent_id
NodeOf(item) == [depth |-> item[2], parent_id |-> item[3]]

\* the record that stores nothing (a faulty variant)
PutNothing(table, video_id, node) == table

\* self._discovered[video_id] = node
Put(table, video_id, node) ==
    [x \in DOMAIN table \cup {video_id} |->
        IF x = video_id THEN node ELSE table[x]]

\* the related IDs left out after the download (a faulty variant)
AfterNodeSkipped(related) == "top"

\* where the worker goes once the node is recorded and handed to on_discover
\* and to the download: the loop of _add_related_to_frontier, or past it
AfterNode(related) == IF related = <<>> THEN "ckpt" ELSE "push"

\* past the callback: if self.download, the download; else the related IDs
AfterCallback(related) == IF download THEN "download" ELSE AfterNode(related)

\* past the record: if self.on_discover, the callback
AfterRecord(related) == IF on_discover THEN "callback" ELSE AfterCallback(related)

\* the record, under the lock: the node enters _discovered and is counted.
\* The list _add_related_to_frontier will iterate over depends on the node and
\* on random draws alone: it is drawn here.
WRecord(w) ==
    /\ wpc[w] = "record"
    /\ discovered' = Put(discovered, witem[w][1], NodeOf(witem[w]))
    /\ stats' = [stats EXCEPT !.videos_discovered = @ + 1,
                              !.videos_processed = @ + 1]
    /\ \E related \in RelatedChoices(Related(witem[w][1])) :
        /\ wrel' = [wrel EXCEPT ![w] = related]
        /\ Go(w, AfterRecord(related))
    /\ LET n == stats.videos_processed + 1 IN
        owed' = IF checkpoint_file /\ n % checkpoint_interval = 0 THEN n ELSE owed
    /\ UNCHANGED <<cfgVars, frontier, visited, stop_event, runPc, witem, snap,
                   file, histVars>>

\* what the callback does for the caller: it returns, or it raises
CallbackOutcomes == {"ok", "raise"}

\* self.on_discover(node), inside its own try
WCallback(w) ==
    /\ wpc[w] = "callback"
    /\ \E outcome \in CallbackOutcomes :
        Go(w, IF outcome = "raise" THEN "caught" ELSE AfterCallback(wrel[w]))
    /\ UNCHANGED <<cfgVars, engVars, runPc, witem, wrel, snap, file, obsVars>>

\* the exception of the callback propagated to the handler of the worker
\* loop (a faulty variant)
CallbackUncaught(related) == "top"

\* where the worker goes from the handler of the callback's try
CallbackCaught(related) == AfterCallback(related)

\* except Exception as e: logger.error("on_discover callback error")
WCaught(w) ==
    /\ wpc[w] = "caught"
    /\ Go(w, CallbackCaught(wrel[w]))
    /\ UNCHANGED <<cfgVars, engVars, runPc, witem, wrel, snap, file, obsVars>>

\* result.success of scraper.download(node.url), or an exception in it
DownloadOutcomes == {"ok", "fail"}

\* _download_video: a successful download is counted, under the lock; a
\* failed one is logged
Downloaded(s, outcome) ==
    IF outcome = "ok"
    THEN [s EXCEPT !.videos_downloaded = @ + 1, !.bytes_downloaded = @ + 1]
    ELSE s

\* if self.download: self._download_video(node)
WDownload(w) ==
    /\ wpc[w] = "download"
    /\ \E outcome \in DownloadOutcomes : stats' = Downloaded(stats, outcome)
    /\ Go(w, AfterNode(wrel[w]))
    /\ UNCHANGED <<cfgVars, frontier, visited, discovered, stop_event, runPc, witem,
                   wrel, snap, file, obsVars>>

\* the item put with the depth of its parent (a faulty variant)
ChildItemSameDepth(related_id, current_depth, video_id) ==
    <<related_id, current_depth, video_id>>

\* the item put on the frontier for a related ID
ChildItem(related_id, current_depth, video_id) ==
    <<related_id, current_depth + 1, video_id>>

\* one turn of the loop of _add_related_to_frontier, under the lock: the
\* related ID is put on the frontier unless it is in _visited
WPush(w) ==
    /\ wpc[w] = "push"
    /\ LET related_id == Head(wrel[w]) IN
        frontier' = IF related_id \notin visited
                    THEN Append(frontier,
                                ChildItem(related_id, witem[w][2], witem[w][1]))
                    ELSE frontier
    /\ wrel' = [wrel EXCEPT ![w] = Tail(@)]
    /\ Go(w, IF Tail(wrel[w]) = <<>> THEN "ckpt" ELSE "push")
    /\ UNCHANGED <<cfgVars, visited, discovered, stats, stop_event, runPc, witem,
                   snap, file, obsVars>>

\* self.checkpoint_file and videos_processed % checkpoint_interval == 0
CheckpointDue ==
    checkpoint_file /\ stats.videos_processed % checkpoint_interval = 0

\* the checkpoint test at the end of a turn of the worker loop
WCkpt(w) ==
    /\ wpc[w] = "ckpt"
    /\ Go(w, IF CheckpointDue THEN "saveV" ELSE "top")
    /\ witem' = [witem EXCEPT ![w] = NoItem]
    /\ owed' = IF CheckpointDue THEN 0 ELSE owed
    /\ UNCHANGED <<cfgVars, engVars, runPc, wrel, snap, file, histVars>>

---------------------------------------------------------------------------
\* _save_checkpoint, run by a worker (periodic) or by run() (final)

SaverPc(s) == IF s = Main THEN runPc ELSE wpc[s]

SaverGo(s, p) ==
    IF s = Main
    THEN runPc' = p /\ UNCHANGED wpc
    ELSE wpc' = [wpc EXCEPT ![s] = p] /\ UNCHANGED runPc

\* "visited": list(self._visited)
SaveVisited(s) ==
    /\ SaverPc(s) = "saveV"
    /\ snap' = [snap EXCEPT ![s].visited = visited]
    /\ SaverGo(s, "saveD")
    /\ UNCHANGED <<cfgVars, engVars, witem, wrel, file, obsVars>>

\* "discovered": {k: v.to_dict() for k, v in self._discovered.items()},
\* "stats": {...}
SaveDiscovered(s) ==
    /\ SaverPc(s) = "saveD"
    /\ snap' = [snap EXCEPT ![s].discovered = discovered, ![s].stats = stats]
    /\ SaverGo(s, "open")
    /\ UNCHANGED <<cfgVars, engVars, witem, wrel, file, obsVars>>

\* an exception leaves _save_checkpoint: the worker's handler counts an
\* error and the loop goes on; in run() nothing catches it
SaveRaise(s) ==
    /\ snap' = [snap EXCEPT ![s] = EmptySnap]
    /\ IF s = Main
       THEN runPc' = "raised" /\ UNCHANGED <<wpc, stats>>
       ELSE /\ wpc' = [wpc EXCEPT ![s] = "top"]
            /\ stats' = CountError(stats)
            /\ UNCHANGED runPc

\* the file right after open(self.checkpoint_file, "w")
Opened(doc) ==
    [form |-> "partial", visited |-> doc.visited,
     discovered |-> doc.discovered, stats |-> doc.stats]

\* open(self.checkpoint_file, "w"): the path now holds an empty file
SaveOpen(s) ==
    /\ SaverPc(s) = "open"
    /\ file' = Opened(snap[s])
    /\ SaverGo(s, "write")
    /\ UNCHANGED <<cfgVars, engVars, witem, wrel, snap, obsVars>>

\* open() fails (no such directory, no permission)
SaveOpenFails(s) ==
    /\ SaverPc(s) = "open"
    /\ SaveRaise(s)
    /\ UNCHANGED <<cfgVars, frontier, visited, discovered, stop_event, witem, wrel,
                   file, obsVars>>

\* json.dump(checkpoint, f) and the close of the file: the document is whole
SaveWrite(s) ==
    /\ SaverPc(s) = "write"
    /\ file' = [form |-> "complete", visited |-> snap[s].visited,
                discovered |-> snap[s].discovered, stats |-> snap[s].stats]
    /\ snap' = [snap EXCEPT ![s] = EmptySnap]
    /\ SaverGo(s, IF s = Main THEN "returned" ELSE "top")
    /\ UNCHANGED <<cfgVars, engVars, witem, wrel, obsVars>>

\* the write fails part way (disk full): the file stays cut short
SaveWriteFails(s) ==
    /\ SaverPc(s) = "write"
    /\ SaveRaise(s)
    /\ UNCHANGED <<cfgVars, frontier, visited, discovered, stop_event, witem, wrel,
                   file, obsVars>>

---------------------------------------------------------------------------
\* run(), after the workers

\* run() goes on to the final checkpoint while workers are still in their
\* loops (a faulty variant)
RunJoinEarly ==
    /\ runPc = "workers"
    /\ runPc' = IF checkpoint_file THEN "saveV" ELSE "returned"
    /\ UNCHANGED <<cfgVars, engVars, wpc, witem, wrel, snap, file, obsVars>>

\* every worker has left its loop: the final checkpoint, or the return
RunJoin ==
    /\ runPc = "workers"
    /\ \A w \in Workers : wpc[w] = "done"
    /\ runPc' = IF checkpoint_file THEN "saveV" ELSE "returned"
    /\ UNCHANGED <<cfgVars, engVars, wpc, witem, wrel, snap, file, obsVars>>

---------------------------------------------------------------------------
\* The process: it ends (or is killed), and an engine is constructed again.

Running == runPc \notin {"init", "returned", "raised", "dead"}

\* the process ends at any point; memory is lost, the file stays
ProcessExit ==
    /\ runPc # "dead"
    /\ engine < MaxEngines
    /\ lastExit' = IF Running THEN "crash"
                   ELSE IF stop_event THEN "stopped" ELSE runPc
    /\ prev' = [discovered |-> DOMAIN discovered,
                expanded |-> prev.expanded \cup {x \in IDs : expandCount[x] > 0},
                seeds |-> ranWith, max_videos |-> max_videos]
    /\ runPc' = "dead"
    /\ frontier' = <<>>
    /\ visited' = {}
    /\ discovered' = NoNodes
    /\ stats' = ZeroStats
    /\ stop_event' = FALSE
    /\ wpc' = [w \in Workers |-> "done"]
    /\ witem' = [w \in Workers |-> NoItem]
    /\ wrel' = [w \in Workers |-> <<>>]
    /\ snap' = [s \in Savers |-> EmptySnap]
    /\ seedCalls' = 0
    /\ seedsGiven' = {}
    /\ seedsAdded' = 0
    /\ lastRun' = "none"
    /\ ranWith' = {}
    /\ expandCount' = [x \in IDs |-> 0]
    /\ claimCount' = [x \in IDs |-> 0]
    /\ claimParent' = [x \in IDs |-> None]
    /\ sinceStop' = [w \in Workers |-> 0]
    /\ owed' = 0
    /\ UNCHANGED <<cfgVars, file, engine>>

Fresh == [visited |-> {}, discovered |-> NoNodes, stats |-> ZeroStats]

\* the visited set rebuilt from the vertex table instead of read from the
\* document (a faulty variant)
LoadedVertices(f) ==
    IF f.form = "complete"
    THEN [visited |-> DOMAIN f.discovered, discovered |-> f.discovered,
          stats |-> f.stats]
    ELSE Fresh

\* _load_checkpoint: what the engine holds after it, for the file it finds
Loaded(f) ==
    CASE f.form = "complete" ->
            [visited |-> f.visited, discovered |-> f.discovered, stats |-> f.stats]
      [] f.form = "partial" -> Fresh
      [] f.form = "badvertex" ->
            [visited |-> f.visited, discovered |-> NoNodes, stats |-> ZeroStats]
      [] f.form = "badstats" ->
            [visited |-> f.visited, discovered |-> f.discovered, stats |-> ZeroStats]
      [] OTHER -> Fresh

\* YouTubeCrawler.__init__: a new engine, which loads the checkpoint if the
\* path is configured and exists
Construct ==
    /\ runPc = "dead"
    /\ \E m \in {max_videos, MaxVideosCfg} : max_videos' = m
    /\ LET l == IF checkpoint_file /\ file.form # "absent" THEN Loaded(file)
                ELSE Fresh
       IN /\ visited' = l.visited
          /\ discovered' = l.discovered
          /\ stats' = l.stats
    /\ runPc' = "init"
    /\ engine' = engine + 1
    /\ UNCHANGED <<graph, max_depth, num_workers, checkpoint_file,
                   checkpoint_interval, download, on_discover, frontier,
                   stop_event, wpc, witem, wrel, snap, file,
                   seedCalls, seedsGiven, seedsAdded, lastRun, ranWith,
                   expandCount, claimCount, claimParent, sinceStop, lastExit,
                   prev, owed>>

---------------------------------------------------------------------------
\* One engine: seeds, runs, workers, checkpoints.
NextEngine ==
    \/ \E url \in Urls : add_seed(url)
    \/ RunEmpty
    \/ RunStart
    \/ Stop
    \/ \E w \in Workers : WTop(w)
    \/ \E w \in Workers : WCap(w)
    \/ \E w \in Workers : WGet(w)
    \/ \E w \in Workers : WGetEmpty(w)
    \/ \E w \in Workers : WEmpty1(w)
    \/ \E w \in Workers : WEmpty2(w)
    \/ \E w \in Workers : WClaim(w)
    \/ \E w \in Workers : WExpand(w)
    \/ \E w \in Workers : WRecord(w)
    \/ \E w \in Workers : WCallback(w)
    \/ \E w \in Workers : WCaught(w)
    \/ \E w \in Workers : WDownload(w)
    \/ \E w \in Workers : WPush(w)
    \/ \E w \in Workers : WCkpt(w)
    \/ \E s \in Savers : SaveVisited(s)
    \/ \E s \in Savers : SaveDiscovered(s)
    \/ \E s \in Savers : SaveOpen(s)
    \/ \E s \in Savers : SaveOpenFails(s)
    \/ \E s \in Savers : SaveWrite(s)
    \/ \E s \in Savers : SaveWriteFails(s)
    \/ RunJoin

\* The crawl of one engine, for every configuration, on the mesh.
Init ==
    \E c \in Configs :
        /\ ~c.checkpoint_file => c.checkpoint_interval = 1
        /\ c.download => ~c.checkpoint_file
        /\ c.on_discover = c.download
        /\ Start(Mesh, c)

Spec == Init /\ [][NextEngine]_vars

\* The crawl of one engine with the cap at its largest: any number of workers
\* and any depth without checkpoints and downloads, one worker with one of them.
InitClaim ==
    \E c \in Configs :
        /\ c.max_videos = MaxVideosCfg
        /\ c.checkpoint_interval = 1
        /\ \/ ~c.checkpoint_file /\ ~c.download
           \/ /\ c.num_workers = 1 /\ c.max_depth = MaxDepthCfg
              /\ c.checkpoint_file # c.download
        /\ c.on_discover = c.download
        /\ Start(Mesh, c)

ClaimSpec == InitClaim /\ [][NextEngine]_vars

\* Engines constructed one after the other over the same checkpoint path,
\* on the pair.
InitResume ==
    \E c \in Configs :
        /\ c.max_videos <= 2
        /\ \/ /\ c.checkpoint_file /\ ~c.download /\ c.max_depth = 1
              /\ c.num_workers = 2 =>
                    c.checkpoint_interval = 1 /\ c.max_videos = 1
           \/ /\ ~c.checkpoint_file /\ c.download /\ c.num_workers = 1
              /\ c.checkpoint_interval = 1 /\ c.max_depth = 0
              /\ c.max_videos = 1
        /\ c.on_discover = c.download
        /\ Start(Pair, c)

NextResume == NextEngine \/ ProcessExit \/ Construct

ResumeSpec == InitResume /\ [][NextResume]_vars

\* Engines constructed one after the other over a checkpoint path that was left
\* with a document whose discovered is not within its visited, on the chain,
\* with a second seed URL: two workers that checkpoint after every vertex (or
\* one worker that downloads).
RestoreConfigs ==
    { [max_videos |-> MaxVideosCfg, max_depth |-> MaxDepthCfg + 1,
       num_workers |-> n, checkpoint_file |-> (n = 2),
       checkpoint_interval |-> 1, download |-> (n = 1),
       on_discover |-> (n = 1)] : n \in 1..2 }

InitRestore == \E c \in RestoreConfigs : Start(Chain, c)

\* the checkpoint path holds a whole document with a vertex whose ID is not in
\* its visited list
TornDocument ==
    file.form = "complete" /\ ~(DOMAIN file.discovered \subseteq file.visited)

\* the process ends while such a document is on disk
ExitOnTorn == TornDocument /\ ProcessExit

NextRestore ==
    \/ NextEngine
    \/ \E url \in MoreUrls : add_seed(url)
    \/ ExitOnTorn
    \/ Construct

RestoreSpec == InitRestore /\ [][NextRestore]_vars

\* The crawl of one engine that has an on_discover callback, with and without
\* downloads and checkpoints.
InitSink ==
    \E c \in Configs :
        /\ c.on_discover
        /\ c.max_videos = MaxVideosCfg
        /\ c.max_depth = MaxDepthCfg
        /\ c.checkpoint_interval = 1
        /\ c.num_workers = 1 \/ (~c.checkpoint_file /\ ~c.download)
        /\ Start(Mesh, c)

SinkSpec == InitSink /\ [][NextEngine]_vars

---------------------------------------------------------------------------
\* Claims about the crawl of one engine (Spec, ClaimSpec).

\* C1: in every reachable state of a crawl the number of vertices in
\* discovered is at most max_videos.
C1_DiscoveredWithinCap == len_discovered <= max_videos

\* the positions of a worker that has claimed the ID of the item it holds
Claimed == {"expand", "record", "callback", "caught", "download", "push", "ckpt"}

\* worker w has claimed x and has not finished with it
Owns(w, x) == wpc[w] \in Claimed /\ witem[w][1] = x

\* C2: for any ID x, whatever the interleaving of the workers that pop items
\* carrying x: x is claimed once and expanded at most once, by one worker;
\* once some item for x has passed the claim step within the depth limit, x
\* is claimed; every other item for x is dropped without an expansion; and the
\* parent_id recorded for x is the parent carried by the item that was claimed.
C2_ExactlyOneClaim ==
    \A x \in IDs :
        /\ claimCount[x] <= 1
        /\ expandCount[x] <= claimCount[x]
        /\ (x \in visited) = (claimCount[x] = 1)
        /\ \A w1, w2 \in Workers : Owns(w1, x) /\ Owns(w2, x) => w1 = w2
        /\ \A w \in Workers : Owns(w, x) => witem[w][3] = claimParent[x]
        /\ x \in DOMAIN discovered =>
            /\ claimCount[x] = 1
            /\ expandCount[x] = 1
            /\ discovered[x].parent_id = claimParent[x]

\* C2 witness: x is recorded with the parent of the item that was claimed
\* while another worker has popped an item for x that carries another parent
\* and is at the claim step.
C2_Witness ==
    \E x \in IDs, w \in Workers :
        /\ x \in DOMAIN discovered
        /\ wpc[w] = "claim"
        /\ witem[w][1] = x
        /\ witem[w][3] # discovered[x].parent_id
        /\ claimCount[x] = 1

\* C6: at every instant the checkpoint path is absent or holds a complete
\* document written by one save.
C6_CheckpointWhole == file.form \in {"absent", "complete"}

\* C10: with a valid configuration run() never ends with an error, whatever
\* the expander, the callbacks, the download and the checkpoint writes do.
C10_RunReturnsStats == runPc # "raised"

---------------------------------------------------------------------------
\* Claims about engines resumed from the checkpoint file (ResumeSpec).

\* C3: over a crawl and its continuations resumed from the checkpoint file,
\* after a graceful end or a crash at any point, the expander is called at
\* most once for any ID: not twice by one engine, and not by an engine for an
\* ID that an earlier engine has expanded.
C3_ExpandedOnceAcrossResume ==
    checkpoint_file =>
        \A x \in IDs :
            /\ expandCount[x] <= 1
            /\ ~(x \in prev.expanded /\ expandCount[x] > 0)

Range(seq) == {seq[i] : i \in 1..Len(seq)}

RECURSIVE Within(_, _)
\* the IDs within d steps of the IDs in S on the site
Within(S, d) ==
    IF d = 0 THEN S
    ELSE Within(S \cup UNION {Range(graph[x]) : x \in S}, d - 1)

\* the resumed engine: restored from the file, given the seeds the engine
\* before it ran with, and at the end of a run() without a stop or an error
ResumedRunEnded ==
    /\ checkpoint_file
    /\ engine > 1
    /\ prev.seeds # {}
    /\ ranWith = prev.seeds
    /\ runPc = "returned"
    /\ ~stop_event
    /\ stats.errors = 0

\* C4: when a checkpointed crawl has ended at the cap, and a new engine that
\* restores the checkpoint with a larger max_videos (large enough for all that
\* can be reached) is given the same seeds and run, then at the end of its
\* run() discovered holds every ID within max_depth of the seeds, those of the
\* first pass included.
C4_ResumeAfterCap ==
    (/\ ResumedRunEnded
     /\ lastExit = "returned"
     /\ Cardinality(prev.discovered) >= prev.max_videos
     /\ max_videos > prev.max_videos
     /\ max_videos >= Cardinality(Within(ranWith, max_depth)))
    => /\ prev.discovered \subseteq DOMAIN discovered
       /\ DOMAIN discovered = Within(ranWith, max_depth)

\* C5: after a crash at any point of a checkpointed crawl, the engine
\* restarted from the checkpoint file and run with the same seeds ends with a
\* discovered set that contains the one held just before the crash, within
\* visited, within max_depth and within max_videos.
C5_ResumeEquivalence ==
    (ResumedRunEnded /\ lastExit = "crash")
    => /\ prev.discovered \subseteq DOMAIN discovered
       /\ DOMAIN discovered \subseteq visited
       /\ \A x \in DOMAIN discovered : discovered[x].depth <= max_depth
       /\ len_discovered <= max_videos

---------------------------------------------------------------------------
\* The load of a checkpoint document (LoadSpec).

\* the node a checkpoint holds for an ID
DocNode(x) ==
    IF x = "A" THEN [depth |-> 0, parent_id |-> None]
    ELSE [depth |-> 1, parent_id |-> "A"]

\* the counters a checkpoint holds for n recorded nodes
DocStats(n, e) ==
    [videos_discovered |-> n, videos_processed |-> n, videos_downloaded |-> 0,
     bytes_downloaded |-> 0, errors |-> e]

\* The documents found at the checkpoint path: whole ones, ones cut short, ones
\* with a vertex record VideoNode.from_dict cannot decode, and ones whose
\* "stats" is not an object.
Docs ==
    { [form |-> fm, visited |-> v, discovered |-> [x \in d |-> DocNode(x)],
       stats |-> DocStats(Cardinality(d), e)] :
        fm \in {"complete", "partial", "badvertex", "badstats"},
        v \in SUBSET IDs, d \in SUBSET IDs, e \in 0..1 }

\* no engine yet, a document at the checkpoint path
InitLoad ==
    /\ graph = Pair
    /\ max_videos \in 1..MaxVideosCfg
    /\ max_depth = MaxDepthCfg
    /\ num_workers = 1
    /\ checkpoint_file = TRUE
    /\ checkpoint_interval = 1
    /\ download = FALSE
    /\ on_discover = FALSE
    /\ frontier = <<>>
    /\ visited = {}
    /\ discovered = NoNodes
    /\ stats = ZeroStats
    /\ stop_event = FALSE
    /\ runPc = "dead"
    /\ wpc = [w \in Workers |-> "done"]
    /\ witem = [w \in Workers |-> NoItem]
    /\ wrel = [w \in Workers |-> <<>>]
    /\ snap = [s \in Savers |-> EmptySnap]
    /\ file \in {f \in Docs : /\ DOMAIN f.discovered \subseteq f.visited
                              /\ f.form = "badvertex" => f.discovered # NoNodes}
    /\ engine = 0
    /\ seedCalls = 0
    /\ seedsGiven = {}
    /\ seedsAdded = 0
    /\ lastRun = "none"
    /\ ranWith = {}
    /\ expandCount = [x \in IDs |-> 0]
    /\ claimCount = [x \in IDs |-> 0]
    /\ claimParent = [x \in IDs |-> None]
    /\ sinceStop = [w \in Workers |-> 0]
    /\ owed = 0
    /\ lastExit = "none"
    /\ prev = [discovered |-> {}, expanded |-> {}, seeds |-> {}, max_videos |-> 0]

LoadSpec == InitLoad /\ [][Construct]_vars

\* C7: when the load of the checkpoint fails at any step, the engine starts
\* empty: visited is empty, discovered is empty and the counters are zero.
C7_FailedLoadStartsEmpty ==
    (runPc = "init" /\ file.form \in {"partial", "badvertex", "badstats"})
    => /\ visited = {}
       /\ discovered = NoNodes
       /\ stats = ZeroStats

---------------------------------------------------------------------------
\* The crawl of one engine under fair scheduling (LiveSpec).

InitLive ==
    \E c \in Configs :
        /\ c.max_videos = 2
        /\ c.max_depth = 1
        /\ \/ c.checkpoint_file /\ ~c.download
           \/ /\ ~c.checkpoint_file /\ c.download /\ c.num_workers = 1
              /\ c.checkpoint_interval = 1
        /\ c.on_discover = c.download
        /\ Start(Pair, c)

\* a step of the thread of worker w
WorkerStep(w) ==
    /\ w \in Workers
    /\ \/ WTop(w) \/ WCap(w) \/ WGet(w) \/ WGetEmpty(w) \/ WEmpty1(w)
       \/ WEmpty2(w) \/ WClaim(w) \/ WExpand(w) \/ WRecord(w) \/ WDownload(w)
       \/ WCallback(w) \/ WCaught(w)
       \/ WPush(w) \/ WCkpt(w) \/ SaveVisited(w) \/ SaveDiscovered(w)
       \/ SaveOpen(w) \/ SaveOpenFails(w) \/ SaveWrite(w) \/ SaveWriteFails(w)

\* a step of the thread in run() once the workers are started
MainStep ==
    \/ RunJoin
    \/ SaveVisited(Main) \/ SaveDiscovered(Main) \/ SaveOpen(Main)
    \/ SaveOpenFails(Main) \/ SaveWrite(Main) \/ SaveWriteFails(Main)

\* every thread that can take a step eventually takes one
Fairness ==
    /\ \A w \in 1..MaxWorkers : WF_vars(WorkerStep(w))
    /\ WF_vars(MainStep)

LiveSpec == InitLive /\ [][NextEngine]_vars /\ Fairness

\* C8: under fair scheduling, once run() has started its workers every worker
\* eventually exits and run() returns.
C8_Termination ==
    (runPc = "workers") ~> (runPc = "returned" /\ \A w \in Workers : wpc[w] = "done")

\* C9: once the stop event is set while run() is executing, no worker claims
\* more than one further item, and run() eventually returns its stats.
C9_Cancellation ==
    /\ [](stop_event => \A w \in Workers : sinceStop[w] <= 1)
    /\ (runPc = "workers" /\ stop_event) ~> (runPc = "returned")

---------------------------------------------------------------------------
\* Invariants of the store.

\* run() has been called on this engine
InRun == runPc \notin {"init", "dead"}

\* C11: in every state of a run every key of discovered is in visited, and a
\* worker that is about to record a vertex has claimed its ID before.
C11_DiscoveredWithinVisited ==
    InRun =>
        /\ DOMAIN discovered \subseteq visited
        /\ \A w \in Workers :
            wpc[w] = "record" =>
                witem[w][1] \in visited /\ claimCount[witem[w][1]] = 1

\* C12: every vertex in discovered has depth <= max_depth; with max_depth = 0
\* only seeds, with depth 0 and no parent, are in discovered.
C12_DepthWithinLimit ==
    \A x \in DOMAIN discovered :
        /\ discovered[x].depth <= max_depth
        /\ max_depth = 0 =>
            /\ discovered[x].depth = 0
            /\ discovered[x].parent_id = None
            /\ x \in seedsGiven

\* C12 witness: a worker is at the claim step with an item beyond max_depth
\* for an ID nobody has claimed, pushed by the vertex recorded before.
C12_Witness ==
    \E w \in Workers :
        /\ wpc[w] = "claim"
        /\ witem[w][2] > max_depth
        /\ witem[w][1] \notin visited
        /\ witem[w][3] \in DOMAIN discovered

\* C13: a vertex in discovered without a parent has depth 0; the parent of
\* any other vertex is in visited and is recorded, and the depth of the vertex
\* is the recorded depth of its parent plus one.
C13_ParentAndDepth ==
    InRun =>
        \A x \in DOMAIN discovered :
            LET v == discovered[x] IN
            IF v.parent_id = None
            THEN v.depth = 0
            ELSE /\ v.parent_id \in visited
                 /\ v.parent_id \in DOMAIN discovered
                 /\ v.depth = discovered[v.parent_id].depth + 1

\* C14: a vertex that is in discovered is never replaced or modified: no step
\* of the engine changes the depth or the parent_id stored for an ID, and a
\* record for an ID that has a vertex leaves the stored vertex as it is.
C14_VertexNeverReplaced ==
    [][\A x \in DOMAIN discovered :
          x \in DOMAIN discovered' => discovered'[x] = discovered[x]]_vars

---------------------------------------------------------------------------
\* Failures of the collaborators.

\* a step of worker w in which get_video_info gives no node
ExpansionFails(w) == wpc[w] = "expand" /\ wpc'[w] \notin {"expand", "record"}

\* C15: when the expansion of a claimed ID fails, errors grows by exactly one,
\* discovered and visited stay as they are (the ID in visited, without a
\* vertex), the worker is back at the top of its loop; and no ID is expanded
\* twice in the crawl.
C15_ExpansionFailure ==
    /\ [][\A w \in Workers :
            ExpansionFails(w) =>
                /\ stats'.errors = stats.errors + 1
                /\ discovered' = discovered
                /\ visited' = visited
                /\ witem[w][1] \in visited'
                /\ witem[w][1] \notin DOMAIN discovered'
                /\ wpc'[w] = "top"]_vars
    /\ [](\A x \in IDs : expandCount[x] <= 1)

\* C15 witness: the expansion of x has failed and was counted, x is in visited
\* without a vertex and held by nobody, and a worker has claimed another ID.
C15_Witness ==
    \E x \in IDs :
        /\ x \in visited
        /\ x \notin DOMAIN discovered
        /\ expandCount[x] = 1
        /\ stats.errors = 1
        /\ \A w \in Workers : witem[w][1] # x
        /\ \E w \in Workers : wpc[w] = "record" /\ witem[w][1] # x

\* a step in which worker w leaves _download_video without a download counted
SinkFails(w) ==
    /\ wpc[w] = "download"
    /\ wpc'[w] # "download"
    /\ stats'.videos_downloaded = stats.videos_downloaded

\* C16: when the download of a discovered vertex fails, errors grows by one.
C16_SinkFailureCounted ==
    [][\A w \in Workers : SinkFails(w) => stats'.errors = stats.errors + 1]_vars

\* C17: a failed download leaves the discovery as it is: the vertex stays in
\* discovered and counted, visited and the frontier are unchanged by the
\* failure, and the worker goes on to enqueue the related IDs of the vertex
\* (all of the list it drew) and then to the checkpoint test.
C17_SinkFailureFrame ==
    /\ [][\A w \in Workers :
            SinkFails(w) =>
                /\ discovered' = discovered
                /\ witem[w][1] \in DOMAIN discovered'
                /\ visited' = visited
                /\ frontier' = frontier
                /\ stats'.videos_discovered = stats.videos_discovered
                /\ stats'.videos_processed = stats.videos_processed
                /\ wrel' = wrel
                /\ witem' = witem
                /\ wpc'[w] = IF wrel[w] = <<>> THEN "ckpt" ELSE "push"]_vars
    /\ [](\A w \in Workers : wpc[w] = "push" => wrel[w] # <<>>)

\* C17 witness: the download of the first vertex has failed, its related IDs
\* are on the frontier and the worker is at the checkpoint test.
C17_Witness ==
    \E w \in Workers :
        /\ download
        /\ wpc[w] = "ckpt"
        /\ stats.videos_discovered = 1
        /\ stats.videos_downloaded = 0
        /\ witem[w][1] \in DOMAIN discovered
        /\ frontier # <<>>
        /\ \A i \in 1..Len(frontier) : frontier[i][3] = witem[w][1]

\* a step in which worker w leaves the handler of a raising on_discover
CallbackRaised(w) == wpc[w] = "caught" /\ wpc'[w] # "caught"

\* C18: when on_discover raises, the vertex is in discovered and counted, the
\* handler changes nothing of it, and the worker goes on with the download or
\* the related IDs of the vertex, then the checkpoint test.
C18_CallbackFailureSwallowed ==
    /\ [][\A w \in Workers :
            CallbackRaised(w) =>
                /\ discovered' = discovered
                /\ visited' = visited
                /\ stats' = stats
                /\ frontier' = frontier
                /\ wrel' = wrel
                /\ witem' = witem
                /\ wpc'[w] = IF download THEN "download"
                             ELSE IF wrel[w] = <<>> THEN "ckpt" ELSE "push"]_vars
    /\ [](\A w \in Workers :
            wpc[w] = "caught" =>
                /\ witem[w][1] \in DOMAIN discovered
                /\ stats.videos_discovered >= 1
                /\ stats.videos_processed >= 1)

\* C18 witness: on_discover has raised for a vertex with related IDs, on an
\* engine that does not download.
C18_Witness ==
    \E w \in Workers :
        /\ ~download
        /\ wpc[w] = "caught"
        /\ wrel[w] # <<>>
        /\ witem[w][1] \in DOMAIN discovered

---------------------------------------------------------------------------
\* The entry points.

\* a step in which run() finds the frontier empty and returns
RunEmptyStep ==
    /\ runPc \in {"init", "returned"}
    /\ runPc' = "returned"
    /\ lastRun' = "empty"
    /\ seedCalls' = seedCalls

\* C19: run() on an empty frontier returns at once: no worker is started, no
\* checkpoint is written, visited and discovered are unchanged, and the stats
\* it returns are empty, also on a restored engine and after an earlier run.
C19_RunOnEmptyFrontier ==
    /\ [][RunEmptyStep =>
            /\ visited' = visited
            /\ discovered' = discovered
            /\ file' = file
            /\ wpc' = wpc]_vars
    /\ [](lastRun = "empty" /\ runPc = "returned" => stats = ZeroStats)

\* a step of add_seed
SeedStep == seedCalls' = seedCalls + 1

\* C20: add_seed leaves visited, discovered and the counters as they are; it
\* returns True exactly when it pushed the one item (id, 0, None) for an ID
\* that is not in visited; when it returns False the frontier is unchanged,
\* and an ID it was given for the first time is in visited. The count
\* add_seeds returns is the number of items pushed.
C20_AddSeed ==
    [][SeedStep =>
        /\ visited' = visited
        /\ discovered' = discovered
        /\ stats' = stats
        /\ IF seedsAdded' = seedsAdded + 1
           THEN \E x \in IDs \ visited :
                    /\ frontier' = Append(frontier, <<x, 0, None>>)
                    /\ x \in seedsGiven'
           ELSE /\ seedsAdded' = seedsAdded
                /\ frontier' = frontier
                /\ seedsGiven' \ seedsGiven \subseteq visited]_vars

\* C20 witness: after a run that visited A, a second call of add_seed has
\* returned False: one seed was enqueued in two calls and the frontier is empty.
C20_Witness ==
    /\ runPc = "returned"
    /\ lastRun = "crawl"
    /\ "A" \in visited
    /\ seedCalls = 2
    /\ seedsAdded = 1
    /\ frontier = <<>>

---------------------------------------------------------------------------
\* The checkpoint document: the Python values _save_checkpoint hands to
\* json.dump, the JSON text, and what _load_checkpoint builds from it
\* (RoundTripSpec). Python values carry their type; dicts have string keys.

PyNone == [py |-> "NoneType"]
PyInt(n) == [py |-> "int", v |-> n]
PyStr(s) == [py |-> "str", v |-> s]
PyList(seq) == [py |-> "list", v |-> seq]
PyDict(f) == [py |-> "dict", v |-> f]

RECURSIVE json_dump(_)
\* json.dump: None is written as null, an int as a number, a str as a string,
\* a list as an array and a dict as an object
json_dump(x) ==
    CASE x.py = "NoneType" -> [t |-> "null"]
      [] x.py = "int" -> [t |-> "number", v |-> x.v]
      [] x.py = "str" -> [t |-> "string", v |-> x.v]
      [] x.py = "list" ->
            [t |-> "array", v |-> [i \in 1..Len(x.v) |-> json_dump(x.v[i])]]
      [] x.py = "dict" ->
            [t |-> "object", v |-> [k \in DOMAIN x.v |-> json_dump(x.v[k])]]

RECURSIVE json_load(_)
\* json.load: the Python value for a JSON text
json_load(j) ==
    CASE j.t = "null" -> PyNone
      [] j.t = "number" -> PyInt(j.v)
      [] j.t = "string" -> PyStr(j.v)
      [] j.t = "array" -> PyList([i \in 1..Len(j.v) |-> json_load(j.v[i])])
      [] j.t = "object" -> PyDict([k \in DOMAIN j.v |-> json_load(j.v[k])])

\* the fields of the dataclass VideoNode
Fields ==
    {"video_id", "url", "title", "channel", "duration", "view_count",
     "related_ids", "discovered_at", "depth", "parent_id"}

\* the fields of VideoNode without a default
Required == {"video_id", "url"}

\* the defaults of the other fields (discovered_at: the time of construction)
Default(f) ==
    CASE f = "related_ids" -> PyList(<<>>)
      [] f = "discovered_at" -> PyStr("now")
      [] f = "depth" -> PyInt(0)
      [] OTHER -> PyNone

\* VideoNode.to_dict without the two fields the crawl sets (a faulty variant)
to_dict_short(node) ==
    [video_id |-> node.video_id, url |-> node.url, title |-> node.title,
     channel |-> node.channel, duration |-> node.duration,
     view_count |-> node.view_count, related_ids |-> node.related_ids,
     discovered_at |-> node.discovered_at]

\* VideoNode.to_dict
to_dict(node) ==
    [video_id |-> node.video_id, url |-> node.url, title |-> node.title,
     channel |-> node.channel, duration |-> node.duration,
     view_count |-> node.view_count, related_ids |-> node.related_ids,
     discovered_at |-> node.discovered_at, depth |-> node.depth,
     parent_id |-> node.parent_id]

\* cls(**data) accepts these keyword arguments
Decodable(data) == DOMAIN data \subseteq Fields /\ Required \subseteq DOMAIN data

\* VideoNode.from_dict: cls(**data), for data it accepts
from_dict(data) ==
    [f \in Fields |-> IF f \in DOMAIN data THEN data[f] ELSE Default(f)]

\* the orders list(a set) can have
Orders(S) ==
    { s \in [1..Cardinality(S) -> S] :
        \A i, j \in 1..Cardinality(S) : i # j => s[i] # s[j] }

\* the dict _save_checkpoint builds, with the visited IDs in the order vs
Checkpoint(vs, table, s) ==
    PyDict([visited |-> PyList([i \in 1..Len(vs) |-> PyStr(vs[i])]),
            discovered |-> PyDict([k \in DOMAIN table |-> PyDict(to_dict(table[k]))]),
            stats |-> PyDict([videos_discovered |-> PyInt(s.videos_discovered),
                              videos_processed |-> PyInt(s.videos_processed),
                              videos_downloaded |-> PyInt(s.videos_downloaded),
                              bytes_downloaded |-> PyInt(s.bytes_downloaded),
                              errors |-> PyInt(s.errors)]),
            timestamp |-> PyStr("now")])

\* dict.get(key, default)
Get(d, key, default) == IF key \in DOMAIN d THEN d[key] ELSE default

\* _load_checkpoint on a whole JSON text: visited is assigned first, then
\* discovered (unless a vertex cannot be decoded), then the counters
Restored(text) ==
    LET checkpoint == json_load(text).v
        vs == Get(checkpoint, "visited", PyList(<<>>)).v
        ds == Get(checkpoint, "discovered", PyDict(NoNodes)).v
        st == Get(checkpoint, "stats", PyDict(<<>>)).v
        count(key) == Get(st, key, PyInt(0)).v
    IN IF \A k \in DOMAIN ds : Decodable(ds[k].v)
       THEN [visited |-> {vs[i].v : i \in 1..Len(vs)},
             discovered |-> [k \in DOMAIN ds |-> from_dict(ds[k].v)],
             stats |-> [videos_discovered |-> count("videos_discovered"),
                        videos_processed |-> count("videos_processed"),
                        videos_downloaded |-> count("videos_downloaded"),
                        bytes_downloaded |-> count("bytes_downloaded"),
                        errors |-> count("errors")]]
       ELSE [visited |-> {vs[i].v : i \in 1..Len(vs)},
             discovered |-> NoNodes, stats |-> ZeroStats]

\* the watch URL get_video_info builds for an ID
WatchUrl(id) ==
    CASE id = "A" -> "watch?v=A"
      [] id = "B" -> "watch?v=B"
      [] id = "C" -> "watch?v=C"

\* the VideoNode get_video_info returns for an ID, with or without the
\* metadata of yt-dlp, after the worker has set depth and parent_id
FullNode(g, id, meta, depth, parent_id) ==
    [video_id |-> PyStr(id),
     url |-> PyStr(WatchUrl(id)),
     title |-> IF meta THEN PyStr("title") ELSE PyNone,
     channel |-> IF meta THEN PyStr("channel") ELSE PyNone,
     duration |-> IF meta THEN PyInt(212) ELSE PyNone,
     view_count |-> IF meta THEN PyInt(1000) ELSE PyNone,
     related_ids |-> PyList([i \in 1..Len(g[id]) |-> PyStr(g[id][i])]),
     discovered_at |-> PyStr("then"),
     depth |-> PyInt(depth),
     parent_id |-> IF parent_id = None THEN PyNone ELSE PyStr(parent_id)]

\* the vertex of an ID in a crawl of the chain from the seed A
ChainNode(id, meta) ==
    CASE id = "A" -> FullNode(Chain, "A", meta, 0, None)
      [] id = "B" -> FullNode(Chain, "B", meta, 1, "A")
      [] id = "C" -> FullNode(Chain, "C", meta, 2, "B")

\* An engine whose workers have all left their loops, with run() at its final
\* checkpoint: any visited set, vertices for some of the visited IDs, counters.
InitRoundTrip ==
    /\ graph = Chain
    /\ max_videos = MaxVideosCfg
    /\ max_depth = MaxDepthCfg + 1
    /\ num_workers = 1
    /\ checkpoint_file = TRUE
    /\ checkpoint_interval = 1
    /\ download \in BOOLEAN
    /\ on_discover = FALSE
    /\ frontier = <<>>
    /\ visited \in SUBSET IDs
    /\ \E d \in SUBSET visited : \E meta \in [d -> BOOLEAN] :
        discovered = [x \in d |-> ChainNode(x, meta[x])]
    /\ \E e \in 0..MaxCount, n \in {0, len_discovered} :
        /\ download \/ n = 0
        /\ stats = [videos_discovered |-> len_discovered,
                    videos_processed |-> len_discovered,
                    videos_downloaded |-> n, bytes_downloaded |-> n,
                    errors |-> e]
    /\ stop_event = FALSE
    /\ runPc = "saveV"
    /\ wpc = [w \in Workers |-> "done"]
    /\ witem = [w \in Workers |-> NoItem]
    /\ wrel = [w \in Workers |-> <<>>]
    /\ snap = [s \in Savers |-> EmptySnap]
    /\ file = NoFile
    /\ engine = 1
    /\ seedCalls = 0
    /\ seedsGiven = {}
    /\ seedsAdded = 0
    /\ lastRun = "crawl"
    /\ ranWith = {}
    /\ expandCount = [x \in IDs |-> 0]
    /\ claimCount = [x \in IDs |-> 0]
    /\ claimParent = [x \in IDs |-> None]
    /\ sinceStop = [w \in Workers |-> 0]
    /\ owed = 0
    /\ lastExit = "none"
    /\ prev = [visited |-> {}, discovered |-> NoNodes, stats |-> ZeroStats]

\* _save_checkpoint with no worker running: the dict is built and dumped
SaveQuiescent ==
    /\ runPc = "saveV"
    /\ \A w \in Workers : wpc[w] = "done"
    /\ \E vs \in Orders(visited) :
        file' = [form |-> "complete",
                 text |-> json_dump(Checkpoint(vs, discovered, stats))]
    /\ runPc' = "returned"
    /\ UNCHANGED <<cfgVars, engVars, wpc, witem, wrel, snap, obsVars>>

\* the process ends after run() has returned; the file stays
ExitQuiescent ==
    /\ runPc = "returned"
    /\ engine < MaxEngines
    /\ prev' = [visited |-> visited, discovered |-> discovered, stats |-> stats]
    /\ lastExit' = "returned"
    /\ lastRun' = "none"
    /\ runPc' = "dead"
    /\ visited' = {}
    /\ discovered' = NoNodes
    /\ stats' = ZeroStats
    /\ UNCHANGED <<cfgVars, frontier, stop_event, wpc, witem, wrel, snap, file,
                   engine, seedCalls, seedsGiven, seedsAdded, ranWith,
                   expandCount, claimCount, claimParent, sinceStop, owed>>

\* YouTubeCrawler.__init__ of a new engine over the checkpoint path
ConstructRestored ==
    /\ runPc = "dead"
    /\ LET l == IF checkpoint_file /\ file.form = "complete"
                THEN Restored(file.text) ELSE Fresh
       IN /\ visited' = l.visited
          /\ discovered' = l.discovered
          /\ stats' = l.stats
    /\ runPc' = "init"
    /\ engine' = engine + 1
    /\ UNCHANGED <<cfgVars, frontier, stop_event, wpc, witem, wrel, snap, file,
                   seedCalls, seedsGiven, seedsAdded, lastRun, ranWith,
                   expandCount, claimCount, claimParent, sinceStop, lastExit,
                   prev, owed>>

NextRoundTrip == SaveQuiescent \/ ExitQuiescent \/ ConstructRestored

RoundTripSpec == InitRoundTrip /\ [][NextRoundTrip]_vars

\* C21: a checkpoint saved by a quiescent engine and loaded into a new engine
\* gives the new engine the visited set, the discovered table (every field of
\* every vertex) and the counters the first engine held.
C21_CheckpointRoundTrip ==
    (runPc = "init" /\ engine > 1) =>
        /\ visited = prev.visited
        /\ discovered = prev.discovered
        /\ stats = prev.stats

\* C21 witness: a restored engine holds a vertex at depth 2 with its parent
\* and metadata, a vertex without metadata, a visited ID without a vertex and
\* non-zero counters.
C21_Witness ==
    /\ runPc = "init"
    /\ engine > 1
    /\ visited = IDs
    /\ DOMAIN discovered = {"A", "C"}
    /\ discovered["C"].depth = PyInt(2)
    /\ discovered["C"].parent_id = PyStr("B")
    /\ discovered["C"].title = PyStr("title")
    /\ discovered["A"].title = PyNone
    /\ stats.errors > 0
    /\ stats.videos_processed = 2

---------------------------------------------------------------------------
\* The crawl with pure breadth and an expander that always gives a node
\* (BreadthSpec), on sites with five videos.

MoreIDs == {"D", "E"}

\* Star: B, C, D and E are related to A.
Star ==
    [x \in IDs \cup MoreIDs |->
        IF x = "A" THEN <<"B", "C", "D", "E">> ELSE <<>>]

\* Line: A -> B -> C -> D -> E.
Line ==
    [x \in IDs \cup MoreIDs |->
        CASE x = "A" -> <<"B">>
          [] x = "B" -> <<"C">>
          [] x = "C" -> <<"D">>
          [] x = "D" -> <<"E">>
          [] x = "E" -> <<>>]

\* An engine without checkpoints, downloads and callbacks; max_videos is
\* larger than the site; max_depth is 2 on the mesh and on the line, and the
\* number of videos less one on the star.
InitBreadth ==
    /\ graph \in {Mesh, Star, Line}
    /\ max_videos = Cardinality(DOMAIN graph) + MaxVideosCfg
    /\ max_depth = IF graph = Star THEN Cardinality(DOMAIN graph) - 1
                   ELSE MaxDepthCfg + 1
    /\ num_workers \in 1..MaxWorkers
    /\ checkpoint_file = FALSE
    /\ checkpoint_interval = 1
    /\ download = FALSE
    /\ on_discover = FALSE
    /\ frontier = <<>>
    /\ visited = {}
    /\ discovered = NoNodes
    /\ stats = ZeroStats
    /\ stop_event = FALSE
    /\ runPc = "init"
    /\ wpc = [w \in Workers |-> "done"]
    /\ witem = [w \in Workers |-> NoItem]
    /\ wrel = [w \in Workers |-> <<>>]
    /\ snap = [s \in Savers |-> EmptySnap]
    /\ file = NoFile
    /\ engine = 1
    /\ seedCalls = 0
    /\ seedsGiven = {}
    /\ seedsAdded = 0
    /\ lastRun = "none"
    /\ ranWith = {}
    /\ expandCount = [x \in DOMAIN graph |-> 0]
    /\ claimCount = [x \in DOMAIN graph |-> 0]
    /\ claimParent = [x \in DOMAIN graph |-> None]
    /\ sinceStop = [w \in Workers |-> 0]
    /\ owed = 0
    /\ lastExit = "none"
    /\ prev = [discovered |-> {}, expanded |-> {}, seeds |-> {}, max_videos |-> 0]

\* get_video_info returns a node
ExpandNode(w) == WExpand(w) /\ wpc'[w] = "record"

\* random_walk_prob = 0: _add_related_to_frontier takes all related IDs
RecordBreadth(w) == WRecord(w) /\ wrel'[w] = Related(witem[w][1])

NextBreadth ==
    \/ \E url \in Urls : add_seed(url)
    \/ RunEmpty
    \/ RunStart
    \/ \E w \in Workers : WTop(w)
    \/ \E w \in Workers : WCap(w)
    \/ \E w \in Workers : WGet(w)
    \/ \E w \in Workers : WGetEmpty(w)
    \/ \E w \in Workers : WEmpty1(w)
    \/ \E w \in Workers : WEmpty2(w)
    \/ \E w \in Workers : WClaim(w)
    \/ \E w \in Workers : ExpandNode(w)
    \/ \E w \in Workers : RecordBreadth(w)
    \/ \E w \in Workers : WPush(w)
    \/ \E w \in Workers : WCkpt(w)
    \/ RunJoin

BreadthSpec == InitBreadth /\ [][NextBreadth]_vars

\* the items _add_related_to_frontier puts for the related IDs ids of id
RECURSIVE Children(_, _, _, _)
Children(ids, vis, depth, id) ==
    IF ids = <<>> THEN <<>>
    ELSE (IF Head(ids) \notin vis
          THEN <<ChildItem(Head(ids), depth, id)>> ELSE <<>>)
         \o Children(Tail(ids), vis, depth, id)

\* the table one worker builds from the frontier q, the visited set vis and
\* the table tab, turn by turn of its loop
RECURSIVE OneWorker(_, _, _)
OneWorker(q, vis, tab) ==
    IF Cardinality(DOMAIN tab) >= max_videos \/ q = <<>> THEN tab
    ELSE LET item == Head(q) IN
         IF item[1] \in vis \/ item[2] > max_depth
         THEN OneWorker(Tail(q), vis, tab)
         ELSE OneWorker(
                Tail(q) \o Children(Related(item[1]), vis \cup {item[1]},
                                    item[2], item[1]),
                vis \cup {item[1]},
                Put(tab, item[1], NodeOf(item)))

\* the frontier of the first run(): one item for each accepted seed
SeedItems == [i \in 1..seedsAdded |-> <<"A", 0, None>>]

\* the first run() of the engine has returned
FirstRunEnded == runPc = "returned" /\ lastRun = "crawl"

\* C22: the crawl of given seeds with a given configuration, a deterministic
\* expander and fixed random choices ends with the same discovered table (IDs,
\* depth, parent_id) whatever the number of workers and their scheduling: the
\* table one worker builds.
C22_Determinism ==
    FirstRunEnded => discovered = OneWorker(SeedItems, {}, NoNodes)

\* the IDs that can be reached from the seeds run() was called with
Reachable == Within(ranWith, Cardinality(DOMAIN graph))

\* neither limit can cut the crawl short
NotBinding ==
    /\ max_videos >= Cardinality(Reachable)
    /\ max_depth >= Cardinality(Reachable) - 1

\* C23: with pure breadth, an expander that never fails and limits that do not
\* bind, discovered is exactly the set of IDs reachable from the seeds when
\* run() returns; on the star A -> [B, C, D, E], for one or two workers, it is
\* {A, B, C, D, E} with A at depth 0 and B..E at depth 1 with parent A.
C23_BreadthReachesAll ==
    (FirstRunEnded /\ NotBinding) =>
        /\ DOMAIN discovered = Reachable
        /\ graph = Star =>
            discovered = [x \in IDs \cup MoreIDs |->
                            IF x = "A" THEN [depth |-> 0, parent_id |-> None]
                            ELSE [depth |-> 1, parent_id |-> "A"]]

\* C23 witness: the crawl of the star by two workers has returned with all
\* five vertices.
C23_Witness ==
    /\ graph = Star
    /\ num_workers = 2
    /\ FirstRunEnded
    /\ NotBinding
    /\ len_discovered = 5
    /\ stats.videos_processed = 5
    /\ frontier = <<>>

---------------------------------------------------------------------------
\* The depth limit.

\* C24: an ID that can only be reached at a depth greater than max_depth never
\* enters visited: a work item with depth > max_depth is dropped at the claim
\* step. On the line A -> B -> C -> D -> E with max_depth = 2 the crawl ends
\* with discovered = {A, B, C}, C at depth 2, and D and E are never in visited.
C24_BeyondDepthNeverVisited ==
    /\ visited \subseteq Within(seedsGiven, max_depth)
    /\ \A w \in Workers :
        wpc[w] \in Claimed => witem[w][2] <= max_depth
    /\ (graph = Line /\ max_depth = 2) =>
        /\ visited \cap {"D", "E"} = {}
        /\ FirstRunEnded =>
            /\ DOMAIN discovered = {"A", "B", "C"}
            /\ discovered["C"].depth = 2

\* C24 witness: on the line a worker is at the claim step with the item for D
\* at depth 3, C is recorded at depth 2.
C24_Witness ==
    \E w \in Workers :
        /\ graph = Line
        /\ max_depth = 2
        /\ wpc[w] = "claim"
        /\ witem[w] = <<"D", 3, "C">>
        /\ "C" \in DOMAIN discovered
        /\ discovered["C"].depth = 2

---------------------------------------------------------------------------
\* An engine constructed with num_workers < 1 (InvalidSpec).

InitInvalid ==
    \E c \in Configs, n \in {-1, 0} :
        Start(Mesh, [c EXCEPT !.num_workers = n])

NextInvalid ==
    \/ \E url \in Urls \cup MoreUrls : add_seed(url)
    \/ RunEmpty
    \/ RunStart

InvalidSpec == InitInvalid /\ [][NextInvalid]_vars

\* C25: with num_workers < 1 the engine fails with a configuration error
\* before a worker is started: run() never returns stats, no item leaves the
\* frontier, and no ID is claimed or expanded.
C25_InvalidWorkersFail ==
    /\ [](num_workers < 1 => runPc # "returned")
    /\ [](num_workers < 1 =>
            /\ visited = {}
            /\ \A x \in IDs : claimCount[x] = 0 /\ expandCount[x] = 0)
    /\ [][num_workers < 1 =>
            \/ frontier' = frontier
            \/ \E item \in IDs \X {0} \X {None} : frontier' = Append(frontier, item)]_vars

---------------------------------------------------------------------------
\* Checkpoints written while the workers run.

\* C26: every checkpoint document written while workers are running is the
\* (visited, discovered, counters) of the store at one instant; in particular
\* every key of its discovered is in its visited, whatever the interleaving of
\* the saving worker with the workers that claim and record.
C26_SnapshotAtOneInstant ==
    file.form = "complete" => DOMAIN file.discovered \subseteq file.visited


\* every worker of the run has left its loop
WorkersLeft ==
    /\ runPc \notin {"init", "dead"}
    /\ lastRun = "crawl"
    /\ \A w \in Workers : wpc[w] = "done"

\* C27: with checkpoint_file set, for every multiple of checkpoint_interval
\* that videos_processed reaches during a run a worker saves a checkpoint after
\* the counter reached it: when the workers have left, no multiple is owed a
\* save, whatever the interleaving of the increments and the tests.
C27_NoIntervalSkipped == WorkersLeft => owed = 0

---------------------------------------------------------------------------
\* The cap and the exits of the workers (CapSpec).

\* The crawl of one engine that nobody stops, without checkpoints, downloads
\* and callbacks, for every max_videos and number of workers, on the mesh.
InitCap ==
    \E c \in Configs :
        /\ ~c.checkpoint_file
        /\ c.checkpoint_interval = 1
        /\ ~c.download
        /\ ~c.on_discover
        /\ c.max_depth = MaxDepthCfg
        /\ Start(Mesh, c)

NextCap ==
    \/ \E url \in Urls : add_seed(url)
    \/ RunEmpty
    \/ RunStart
    \/ \E w \in Workers : WTop(w)
    \/ \E w \in Workers : WCap(w)
    \/ \E w \in Workers : WGet(w)
    \/ \E w \in Workers : WGetEmpty(w)
    \/ \E w \in Workers : WEmpty1(w)
    \/ \E w \in Workers : WEmpty2(w)
    \/ \E w \in Workers : WClaim(w)
    \/ \E w \in Workers : WExpand(w)
    \/ \E w \in Workers : WRecord(w)
    \/ \E w \in Workers : WPush(w)
    \/ \E w \in Workers : WCkpt(w)
    \/ RunJoin

CapSpec == InitCap /\ [][NextCap]_vars

\* the workers that have passed the cap check of the turn they are in and have
\* not recorded yet
PastCap ==
    {w \in Workers : wpc[w] \in {"get", "empty1", "empty2", "claim", "expand", "record"}}

\* C28: on an engine started without a restored checkpoint the number of
\* vertices in discovered never exceeds max_videos + num_workers - 1: while
\* the cap is not reached any worker can pass the cap check, and each worker
\* that passed it records at most one vertex before it is checked again.
C28_CapOvershootBound ==
    /\ len_discovered <= max_videos + num_workers - 1
    /\ len_discovered >= max_videos =>
        len_discovered + Cardinality(PastCap) <= max_videos + num_workers - 1

\* C28 witness: with two workers discovered holds one vertex more than
\* max_videos.
C28_Witness ==
    /\ num_workers = 2
    /\ len_discovered = max_videos + num_workers - 1
    /\ \A w \in Workers : wpc[w] = "done"


\* C29: the early exit of single workers at an empty frontier strands no work:
\* when the workers have left their loops and neither the stop event is set
\* nor the cap reached, the frontier is empty; an item put by a worker after
\* another worker left has been popped.
C29_NoStrandedWork ==
    (WorkersLeft /\ ~stop_event /\ len_discovered < max_videos) =>
        frontier = <<>>

\* C29 witness: a worker has left at an empty frontier, and the other worker
\* has since put an item for a related ID of the vertex it holds.
C29_Witness ==
    \E w1, w2 \in Workers :
        /\ runPc = "workers"
        /\ ~stop_event
        /\ len_discovered < max_videos
        /\ wpc[w1] = "done"
        /\ wpc[w2] = "push"
        /\ frontier # <<>>
        /\ \A i \in 1..Len(frontier) : frontier[i][3] = witem[w2][1]


\* C30: the record happens before the puts: whenever a work item with a
\* parent_id p is on the frontier or held by a worker, p is a key of
\* discovered, so a worker that pops an item put for a related ID of v finds
\* v in discovered.
C30_RecordBeforePush ==
    /\ \A i \in 1..Len(frontier) :
        frontier[i][3] # None => frontier[i][3] \in DOMAIN discovered
    /\ \A w \in Workers :
        witem[w][3] # None => witem[w][3] \in DOMAIN discovered

\* C30 witness: a worker has popped an item put for a related ID of v while
\* the worker that recorded v is still putting the related IDs of v.
C30_Witness ==
    \E w1, w2 \in Workers :
        /\ wpc[w1] = "push"
        /\ wpc[w2] = "claim"
        /\ witem[w2][3] = witem[w1][1]
        /\ witem[w1][1] \in DOMAIN discovered

---------------------------------------------------------------------------
\* The scheduler: what _add_related_to_frontier puts on the frontier.

\* C31: no work item whose depth exceeds max_depth is ever on the frontier:
\* the related IDs of a vertex at depth max_depth are dropped, not put.
C31_NoDeepItemOnFrontier ==
    \A i \in 1..Len(frontier) : frontier[i][2] <= max_depth


\* a turn of the loop of _add_related_to_frontier by worker w, for a vertex
\* above max_depth
PushTurn(w) ==
    /\ wpc[w] = "push"
    /\ wrel'[w] = Tail(wrel[w])
    /\ witem[w][2] < max_depth

\* C32: on the breadth branch, for an expanded vertex v with v.depth <
\* max_depth, exactly one work item is put for every related ID of v, with
\* depth v.depth + 1 and parent_id v.id: the list the loop goes through is
\* all of related_ids, and every turn of the loop puts the item of its ID.
C32_BreadthPushesAll ==
    /\ [][\A w \in Workers :
            (wpc[w] = "record" /\ wpc'[w] # "record") =>
                wrel'[w] = Related(witem[w][1])]_vars
    /\ [][\A w \in Workers :
            PushTurn(w) =>
                frontier' = Append(frontier, <<Head(wrel[w]), witem[w][2] + 1,
                                               witem[w][1]>>)]_vars


---------------------------------------------------------------------------
\* The random walk: random_walk_prob = 1, one worker.

\* An engine without checkpoints, downloads and callbacks and with one
\* worker, on the mesh, the star and the line; neither limit binds.
InitWalk ==
    /\ InitBreadth
    /\ num_workers = 1

\* random_walk_prob = 1: _add_related_to_frontier takes a sample of the
\* related IDs, or returns at once when there are none
RecordWalk(w) ==
    /\ WRecord(w)
    /\ LET ids == Related(witem[w][1]) IN
        wrel'[w] \in (IF ids = <<>> THEN {<<>>} ELSE RandomWalk(ids))

NextWalk ==
    \/ \E url \in Urls : add_seed(url)
    \/ RunEmpty
    \/ RunStart
    \/ \E w \in Workers : WTop(w)
    \/ \E w \in Workers : WCap(w)
    \/ \E w \in Workers : WGet(w)
    \/ \E w \in Workers : WGetEmpty(w)
    \/ \E w \in Workers : WEmpty1(w)
    \/ \E w \in Workers : WEmpty2(w)
    \/ \E w \in Workers : WClaim(w)
    \/ \E w \in Workers : ExpandNode(w)
    \/ \E w \in Workers : RecordWalk(w)
    \/ \E w \in Workers : WPush(w)
    \/ \E w \in Workers : WCkpt(w)
    \/ RunJoin

WalkSpec == InitWalk /\ [][NextWalk]_vars

\* the related IDs of the items on the frontier q that were put for vertex id:
\* a vertex is recorded once, and with one worker nothing is popped during the
\* call, so at the end of the call these are the IDs the call has put
PushedFor(q, id) ==
    LET items == SelectSeq(q, LAMBDA item : item[3] = id)
    IN  [i \in 1..Len(items) |-> items[i][1]]

\* the members of the list ids
Members(ids) == {ids[i] : i \in 1..Len(ids)}

\* the last turn of the loop of _add_related_to_frontier by worker w
LastTurn(w) == wpc[w] = "push" /\ wpc'[w] = "ckpt"

\* C33: on the random-walk branch, for an expanded vertex v with n >= 1
\* related IDs and v.depth < max_depth, the IDs put on the frontier are k
\* pairwise distinct members of v.related_ids with 1 <= k <= min(3, n); with
\* n = 0 nothing is put.
C33_RandomWalkPushes ==
    /\ [][\A w \in Workers :
            (LastTurn(w) /\ witem[w][2] < max_depth) =>
                LET ids == Related(witem[w][1])
                    put == PushedFor(frontier', witem[w][1])
                IN  /\ 1 <= Len(put)
                    /\ Len(put) <= Min(3, Len(ids))
                    /\ Cardinality(Members(put)) = Len(put)
                    /\ Members(put) \subseteq Members(ids)]_vars
    /\ [][\A w \in Workers :
            (wpc[w] = "record" /\ wpc'[w] # "record"
                /\ Related(witem[w][1]) = <<>>) =>
                wpc'[w] # "push" /\ frontier' = frontier]_vars


---------------------------------------------------------------------------
\* A periodic save that fails (RetrySpec).

\* An engine that saves a checkpoint every MaxInterval vertices, without
\* downloads and callbacks, on the star; neither limit binds.
InitRetry ==
    /\ graph = Star
    /\ max_videos = Cardinality(DOMAIN graph) + MaxVideosCfg
    /\ max_depth = MaxDepthCfg
    /\ num_workers \in 1..MaxWorkers
    /\ checkpoint_file = TRUE
    /\ checkpoint_interval = MaxInterval
    /\ download = FALSE
    /\ on_discover = FALSE
    /\ frontier = <<>>
    /\ visited = {}
    /\ discovered = NoNodes
    /\ stats = ZeroStats
    /\ stop_event = FALSE
    /\ runPc = "init"
    /\ wpc = [w \in Workers |-> "done"]
    /\ witem = [w \in Workers |-> NoItem]
    /\ wrel = [w \in Workers |-> <<>>]
    /\ snap = [s \in Savers |-> EmptySnap]
    /\ file = NoFile
    /\ engine = 1
    /\ seedCalls = 0
    /\ seedsGiven = {}
    /\ seedsAdded = 0
    /\ lastRun = "none"
    /\ ranWith = {}
    /\ expandCount = [x \in DOMAIN graph |-> 0]
    /\ claimCount = [x \in DOMAIN graph |-> 0]
    /\ claimParent = [x \in DOMAIN graph |-> None]
    /\ sinceStop = [w \in Workers |-> 0]
    /\ owed = 0
    /\ lastExit = "none"
    /\ prev = [discovered |-> {}, expanded |-> {}, seeds |-> {}, max_videos |-> 0]

\* the expander always returns a node and the scheduler takes the breadth
\* branch: the only exception in a worker is the one of _save_checkpoint
NextRetry ==
    \/ \E url \in Urls : add_seed(url)
    \/ RunEmpty
    \/ RunStart
    \/ \E w \in Workers : WTop(w)
    \/ \E w \in Workers : WCap(w)
    \/ \E w \in Workers : WGet(w)
    \/ \E w \in Workers : WGetEmpty(w)
    \/ \E w \in Workers : WEmpty1(w)
    \/ \E w \in Workers : WEmpty2(w)
    \/ \E w \in Workers : WClaim(w)
    \/ \E w \in Workers : ExpandNode(w)
    \/ \E w \in Workers : RecordBreadth(w)
    \/ \E w \in Workers : WPush(w)
    \/ \E w \in Workers : WCkpt(w)
    \/ \E s \in Savers : SaveVisited(s)
    \/ \E s \in Savers : SaveDiscovered(s)
    \/ \E s \in Savers : SaveOpen(s)
    \/ \E s \in Savers : SaveOpenFails(s)
    \/ \E s \in Savers : SaveWrite(s)
    \/ \E s \in Savers : SaveWriteFails(s)
    \/ RunJoin

RetrySpec == InitRetry /\ [][NextRetry]_vars

\* the periodic save of worker w fails: the exception of open() or of
\* json.dump() reaches the handler of the worker loop
PeriodicSaveFails(w) ==
    /\ wpc[w] \in {"open", "write"}
    /\ wpc'[w] # wpc[w]
    /\ stats'.errors = stats.errors + 1

\* C34: if a periodic checkpoint write fails inside a worker, that worker
\* keeps running (it is back at the top of its loop), visited and discovered
\* are unchanged by the failure, and the write is attempted again at the next
\* checkpoint interval: when the workers have left after a failed save, no
\* multiple of checkpoint_interval that videos_processed reached is owed a
\* save.
C34_FailedSaveRetried ==
    /\ [][\A w \in Workers :
            PeriodicSaveFails(w) =>
                /\ wpc'[w] = "top"
                /\ visited' = visited
                /\ discovered' = discovered]_vars
    /\ []((WorkersLeft /\ stats.errors > 0) => owed = 0)


---------------------------------------------------------------------------
\* The final checkpoint (FinalSpec).

\* An engine with a checkpoint file that saves every MaxInterval vertices,
\* without downloads and callbacks, that may be stopped, on the pair.
InitFinal ==
    \E c \in Configs :
        /\ c.checkpoint_file
        /\ ~c.download
        /\ ~c.on_discover
        /\ c.max_videos = MaxVideosCfg
        /\ c.max_depth = MaxDepthCfg
        /\ c.checkpoint_interval = MaxInterval
        /\ Start(Pair, c)

NextFinal ==
    \/ \E url \in Urls : add_seed(url)
    \/ RunEmpty
    \/ RunStart
    \/ Stop
    \/ \E w \in Workers : WTop(w)
    \/ \E w \in Workers : WCap(w)
    \/ \E w \in Workers : WGet(w)
    \/ \E w \in Workers : WGetEmpty(w)
    \/ \E w \in Workers : WEmpty1(w)
    \/ \E w \in Workers : WEmpty2(w)
    \/ \E w \in Workers : WClaim(w)
    \/ \E w \in Workers : WExpand(w)
    \/ \E w \in Workers : WRecord(w)
    \/ \E w \in Workers : WPush(w)
    \/ \E w \in Workers : WCkpt(w)
    \/ \E s \in Savers : SaveVisited(s)
    \/ \E s \in Savers : SaveDiscovered(s)
    \/ \E s \in Savers : SaveOpen(s)
    \/ \E s \in Savers : SaveOpenFails(s)
    \/ \E s \in Savers : SaveWrite(s)
    \/ \E s \in Savers : SaveWriteFails(s)
    \/ RunJoin

FinalSpec == InitFinal /\ [][NextFinal]_vars

\* run() is in its final _save_checkpoint
FinalSave == runPc \in {"saveV", "saveD", "open", "write"}

\* the document of the state the engine holds in memory
StateDocument ==
    [form |-> "complete", visited |-> visited, discovered |-> discovered,
     stats |-> stats]

\* C35: with checkpoint_file set, the final checkpoint is written only after
\* every worker has left its loop, and when a run() that started workers
\* returns, the checkpoint file holds exactly the visited set, the discovered
\* table and the counters the engine holds in memory, also when the run was
\* ended by stop().
C35_FinalCheckpoint ==
    /\ FinalSave => \A w \in Workers : wpc[w] = "done"
    /\ (checkpoint_file /\ runPc = "returned" /\ lastRun = "crawl") =>
            file = StateDocument

\* a stopped run has returned with a vertex recorded and work left on the
\* frontier
C35_Witness ==
    /\ checkpoint_file
    /\ runPc = "returned"
    /\ lastRun = "crawl"
    /\ stop_event
    /\ frontier # <<>>
    /\ DOMAIN discovered # {}


---------------------------------------------------------------------------
\* The crawl resumed with new seeds (ContinueSpec).

\* An engine with one worker and a checkpoint file that saves after every
\* vertex, without downloads and callbacks, on the pair; the process ends at
\* any point and a new engine is constructed over the file and given seeds
\* again.
InitContinue ==
    \E c \in Configs :
        /\ c.checkpoint_file
        /\ ~c.download
        /\ ~c.on_discover
        /\ c.max_videos = MaxVideosCfg
        /\ c.max_depth = MaxDepthCfg
        /\ c.checkpoint_interval = 1
        /\ c.num_workers = 1
        /\ Start(Pair, c)

NextContinue ==
    \/ \E url \in Urls \cup MoreUrls : add_seed(url)
    \/ RunEmpty
    \/ RunStart
    \/ \E w \in Workers : WTop(w)
    \/ \E w \in Workers : WCap(w)
    \/ \E w \in Workers : WGet(w)
    \/ \E w \in Workers : WGetEmpty(w)
    \/ \E w \in Workers : WEmpty1(w)
    \/ \E w \in Workers : WEmpty2(w)
    \/ \E w \in Workers : WClaim(w)
    \/ \E w \in Workers : WExpand(w)
    \/ \E w \in Workers : WRecord(w)
    \/ \E w \in Workers : WPush(w)
    \/ \E w \in Workers : WCkpt(w)
    \/ \E s \in Savers : SaveVisited(s)
    \/ \E s \in Savers : SaveDiscovered(s)
    \/ \E s \in Savers : SaveOpen(s)
    \/ \E s \in Savers : SaveOpenFails(s)
    \/ \E s \in Savers : SaveWrite(s)
    \/ \E s \in Savers : SaveWriteFails(s)
    \/ RunJoin
    \/ ProcessExit
    \/ Construct

ContinueSpec == InitContinue /\ [][NextContinue]_vars

\* the first run() of an engine constructed over the checkpoint file starts
\* its workers
ResumedRunStarts ==
    /\ engine > 1
    /\ checkpoint_file
    /\ runPc = "init"
    /\ runPc' = "workers"

\* worker w records a vertex
Records(w) == wpc[w] = "record" /\ wpc'[w] # "record"

\* C36: the counters restored from a checkpoint carry into the resumed crawl:
\* the run starts from the restored videos_discovered = d and errors = e, every
\* vertex it records adds one to videos_discovered and every failed expansion
\* one to errors, so that it returns d + k and e + j.
C36_RestoredCountersCarry ==
    /\ [][ResumedRunStarts => stats' = stats]_vars
    /\ [][\A w \in Workers :
            (Records(w) /\ runPc' = runPc) =>
                stats'.videos_discovered = stats.videos_discovered + 1]_vars
    /\ [][\A w \in Workers :
            (ExpansionFails(w) /\ runPc' = runPc) =>
                stats'.errors = stats.errors + 1]_vars


\* a new engine is constructed over a whole checkpoint document
Restores ==
    /\ runPc = "dead"
    /\ runPc' = "init"
    /\ checkpoint_file
    /\ file.form = "complete"

\* x was in _visited when the engine was constructed: it is in _visited and
\* this engine has not claimed it
RestoredID(x) ==
    /\ engine > 1
    /\ runPc # "dead"
    /\ x \in visited
    /\ claimCount[x] = 0

\* C37: in a resumed crawl an ID of the restored visited set is never claimed
\* or expanded: every ID of the document's visited list is restored, with or
\* without a vertex in discovered, and a restored ID stays unclaimed and
\* unexpanded as long as the engine lives, also when it is given as a seed
\* again or is a related ID of a vertex the engine records.
C37_RestoredNeverClaimed ==
    /\ [][Restores => \A x \in file.visited : RestoredID(x)']_vars
    /\ [][\A x \in IDs :
            (RestoredID(x) /\ runPc' # "dead") =>
                RestoredID(x)' /\ expandCount'[x] = 0]_vars

\* a resumed run has returned: A was restored without a vertex and given as a
\* seed again, and B, whose related ID is A, was recorded
C37_Witness ==
    /\ RestoredID("A")
    /\ "A" \notin DOMAIN discovered
    /\ "A" \in seedsGiven
    /\ "B" \in DOMAIN discovered
    /\ expandCount["B"] = 1
    /\ runPc = "returned"
    /\ lastRun = "crawl"


---------------------------------------------------------------------------
\* The counters against the tables.

\* C38: on an engine that restored no checkpoint and saves none, when run()
\* returns every ID in visited is a key of discovered or was counted once in
\* errors: |visited| = |discovered| + errors, and videos_discovered =
\* videos_processed = |discovered|.
C38_CountersMatchTables ==
    (runPc = "returned" /\ ~checkpoint_file /\ engine = 1) =>
        /\ Cardinality(visited) = len_discovered + stats.errors
        /\ stats.videos_discovered = len_discovered
        /\ stats.videos_processed = len_discovered


---------------------------------------------------------------------------
\* The related IDs the expander takes from a watch page (ExtractSpec).

\* the length of the pages: the "videoId" values inside ytInitialData, and the
\* "videoId" fields in the rest of the page
MaxTokens == 3

\* the cap on the related list, standing for the 25 of related_ids[:25]
MaxRelated == 2

\* a "videoId" value that is not an 11-character string
Short == "short"

\* the 11-character IDs a page can name
PageIDs == IDs \cup MoreIDs

\* the sequences over S of length at most n
SeqsUpTo(S, n) == UNION { [1..k -> S] : k \in 0..n }

\* The watch pages: the GET succeeds or raises; the page has no ytInitialData,
\* one that json.loads rejects, or one that decodes; data are the "videoId"
\* values in it, in the order extract_recursive meets them; other are the
\* 11-character "videoId" fields in the rest of the page.
Pages ==
    { [fetch |-> f, json |-> j, data |-> d, other |-> o] :
        f \in {"ok", "raise"}, j \in {"ok", "bad", "none"},
        d \in SeqsUpTo(PageIDs \cup {Short}, MaxTokens),
        o \in SeqsUpTo(PageIDs, MaxTokens - 1) }

\* "Deduplicate while preserving order"
RECURSIVE Unique(_, _)
Unique(ids, seen) ==
    IF ids = <<>> THEN <<>>
    ELSE IF Head(ids) \in seen THEN Unique(Tail(ids), seen)
    ELSE <<Head(ids)>> \o Unique(Tail(ids), seen \cup {Head(ids)})

\* isinstance(vid, str) and len(vid) == 11
IsVideoId(vid) == vid \in PageIDs

\* _extract_video_ids_from_data: the 11-character values, without repeats
extract_video_ids_from_data(data) ==
    Unique(SelectSeq(data, IsVideoId), {})

\* re.findall(r'"videoId"\s*:\s*"([a-zA-Z0-9_-]{11})"', html), over the
\* whole page, ytInitialData included
findall(page) ==
    (IF page.json = "none" THEN <<>> ELSE SelectSeq(page.data, IsVideoId))
        \o page.other

\* the first n entries of ids: ids[:n]
Prefix(ids, n) == SubSeq(ids, 1, Min(n, Len(ids)))

\* _get_related_from_page: the lists it can return for video_id on page; the
\* order of list(all_ids) is the iteration order of a set of strings
get_related_from_page(video_id, page) ==
    IF page.fetch = "raise" THEN {<<>>}
    ELSE LET from_data == IF page.json = "ok"
                          THEN extract_video_ids_from_data(page.data)
                          ELSE <<>>
         IN IF from_data # <<>>
            THEN {Prefix(from_data, MaxRelated)}
            ELSE LET all_ids == {findall(page)[i] : i \in 1..Len(findall(page))}
                                    \ {video_id}
                 IN {Prefix(related_ids, MaxRelated) :
                        related_ids \in Orders(all_ids)}

\* A worker has claimed an ID and the watch page of the ID is what the site
\* answers.
InitExtract ==
    /\ graph = Mesh
    /\ max_videos = MaxVideosCfg
    /\ max_depth = MaxDepthCfg
    /\ num_workers = 1
    /\ checkpoint_file = FALSE
    /\ checkpoint_interval = 1
    /\ download = FALSE
    /\ on_discover = FALSE
    /\ frontier = <<>>
    /\ \E video_id \in IDs :
        /\ visited = {video_id}
        /\ witem = [w \in Workers |-> <<video_id, 0, None>>]
        /\ claimCount = [x \in IDs |-> IF x = video_id THEN 1 ELSE 0]
        /\ seedsGiven = {video_id}
        /\ ranWith = {video_id}
    /\ discovered = NoNodes
    /\ stats = ZeroStats
    /\ stop_event = FALSE
    /\ runPc = "workers"
    /\ wpc = [w \in Workers |-> "expand"]
    /\ wrel = [w \in Workers |-> <<>>]
    /\ snap = [s \in Savers |-> EmptySnap]
    /\ file \in Pages
    /\ engine = 1
    /\ seedCalls = 1
    /\ seedsAdded = 1
    /\ lastRun = "crawl"
    /\ expandCount = [x \in IDs |-> 0]
    /\ claimParent = [x \in IDs |-> None]
    /\ sinceStop = [w \in Workers |-> 0]
    /\ owed = 0
    /\ lastExit = "none"
    /\ prev = [discovered |-> {}, expanded |-> {}, seeds |-> {}, max_videos |-> 0]

\* get_video_info: related_ids=self._get_related_from_page(video_id)
GetVideoInfo(w) ==
    /\ wpc[w] = "expand"
    /\ expandCount' = [expandCount EXCEPT ![witem[w][1]] = Inc(@)]
    /\ \E related_ids \in get_related_from_page(witem[w][1], file) :
        wrel' = [wrel EXCEPT ![w] = related_ids]
    /\ Go(w, "record")
    /\ UNCHANGED <<cfgVars, frontier, visited, discovered, stats, stop_event,
                   runPc, witem, snap, file, engine, seedCalls, seedsGiven,
                   seedsAdded, lastRun, ranWith, claimCount, claimParent,
                   sinceStop, lastExit, prev, owed>>

NextExtract == \E w \in Workers : GetVideoInfo(w)

ExtractSpec == InitExtract /\ [][NextExtract]_vars

\* C39: for every vertex the expander returns, related_ids has at most
\* MaxRelated (25) entries and does not contain the vertex's own ID, whether
\* the IDs were collected from the embedded JSON data or by the regex
\* fallback.
C39_RelatedCappedWithoutSelf ==
    \A w \in Workers :
        wpc[w] = "record" =>
            /\ Len(wrel[w]) <= MaxRelated
            /\ \A i \in 1..Len(wrel[w]) : wrel[w][i] # witem[w][1]

====
